---- MODULE Spec2Model ----
(***************************************************************************)
(* Common Notary Apostille - quote calculator and multi-step intake form   *)
(* (src/app.js).  The form state lives in the DOM controls; each change    *)
(* event is handled to completion, so every handler is one atomic action.  *)
(*                                                                         *)
(* Money.  The script computes in JavaScript doubles and only formats to   *)
(* two decimals in formatCurrency.  Here an amount is an integer number of *)
(* mills (1/1000 dollar): every catalog rate is a whole dollar amount and  *)
(* the only fraction is the 0.15 discount, so all amounts the script can   *)
(* produce are exact in mills.  formatCurrency rounds mills to cents.      *)
(***************************************************************************)
EXTENDS Integers, Sequences, FiniteSets, TLC

(***************************************************************************)
(* Bounds of the model.                                                    *)
(***************************************************************************)
\* largest value typed into the numDocuments input
MaxDocs == 3
\* largest option of the sessionHours select
MaxHours == 6
\* how many of the complexity check boxes the form exposes
MaxComplexity == 1
\* how many of the remoteUrgency check boxes the form exposes
MaxBooking == 2

(***************************************************************************)
(* PRICING (dollars; additionalDocDiscount in thousandths).                *)
(***************************************************************************)
PRICING ==
  [ apostille |-> ("nj" :> 447 @@ "dmv" :> 397 @@ "tn" :> 347 @@
                   "swva" :> 297 @@ "federal" :> 497),
    poa       |-> [base |-> 115, max |-> 150, perDoc |-> 25],
    trust     |-> [base |-> 125, max |-> 175, perDoc |-> 35],
    loan      |-> [base |-> 80, perDoc |-> 15],
    hospital  |-> [base |-> 100, perDoc |-> 25],
    remote    |-> [base |-> 649, overagePerHour |-> 150, overagePerHalfHour |-> 75],
    recording |-> ("audio" :> 149 @@ "audio_video" :> 199 @@ "timestamp" :> 49 @@
                   "same_day_delivery" :> 75 @@ "24hr_delivery" :> 45 @@
                   "archive_monthly" :> 25 @@ "archive_yearly" :> 99),
    complexity |-> ("heavy_exhibits" :> 99 @@ "multi_party" :> 75 @@
                    "interpreter" :> 75 @@ "second_tech" :> 199),
    remoteUrgency |-> ("rush_booking" :> 125 @@ "same_day_booking" :> 199 @@
                       "after_hours" :> 150 @@ "weekend_holiday" :> 199),
    certified_reporter |-> [coordination |-> 125],
    recording_only |-> [base |-> 0],
    urgency   |-> ("standard" :> 0 @@ "expedited" :> 75 @@ "rush" :> 150),
    delivery  |-> ("pickup" :> 0 @@ "standard_mail" :> 15 @@ "express" :> 35 @@
                   "international" :> 75),
    location  |-> ("office" :> 0 @@ "mobile" :> 25 @@ "hospital" :> 25),
    additionalDocDiscount |-> 150 ]

\* a dollar amount of the catalog, in mills
Dollars(d) == d * 1000

\* `table[key] || 0': a key the table does not hold reads as undefined
Rate(table, key) == IF key \in DOMAIN table THEN table[key] ELSE 0

(***************************************************************************)
(* The values the form controls can hold.  "" is the empty value of a      *)
(* select, a radio group with no button checked.  "other" is an option of  *)
(* a select that the script does not list.  The sessionHours select holds  *)
(* <<>> (no number) or <<h>>.  The numDocuments input holds text (below).  *)
(***************************************************************************)
RemoteServices == {"remote", "recording_only", "certified_reporter"}
ServiceTypes ==
  {"", "other", "apostille", "poa", "trust", "loan", "hospital"} \cup RemoteServices
Regions == {"", "other"} \cup DOMAIN PRICING.apostille
LocationTypes == {""} \cup DOMAIN PRICING.location
UrgencyValues == DOMAIN PRICING.urgency
DeliveryValues == DOMAIN PRICING.delivery
\* The text of an input, as parseInt sees it: the integer the text starts with
\* (<<>> when it starts with none) and whether more text follows it.
\* "" is Text(<<>>, FALSE), "abc" Text(<<>>, TRUE), "3" Text(<<3>>, FALSE),
\* "2.5" Text(<<2>>, TRUE).
Text(lead, rest) == [lead |-> lead, rest |-> rest]
NumDocumentsValues ==
  {Text(<<>>, FALSE), Text(<<>>, TRUE)}
  \cup {Text(<<n>>, FALSE) : n \in (0 - 1)..MaxDocs}
  \cup {Text(<<n>>, TRUE) : n \in 1..(MaxDocs - 1)}
SessionHoursValues == {<<>>} \cup {<<h>> : h \in 3..MaxHours}

ComplexityOrder == <<"heavy_exhibits", "multi_party", "interpreter", "second_tech">>
BookingOrder == <<"rush_booking", "same_day_booking", "after_hours", "weekend_holiday">>
Prefix(order, n) == {order[i] : i \in {j \in 1..Len(order) : j <= n}}
RecordingValues == DOMAIN PRICING.recording
\* the check boxes named "addons" and those named "remoteUrgency"
AddonValues == RecordingValues \cup Prefix(ComplexityOrder, MaxComplexity)
RemoteUrgencyValues == Prefix(BookingOrder, MaxBooking)

\* parseInt(text): the leading integer, whatever follows it; NaN (<<>>) without one
parseInt(text) == text.lead

\* `parseInt(value) || dflt': NaN and 0 are falsy
parseIntOr(value, dflt) ==
  IF value = <<>> THEN dflt ELSE IF value[1] = 0 THEN dflt ELSE value[1]

RECURSIVE SumOver(_, _)
\* forEach over the checked boxes, adding f[value] to a running total
SumOver(S, f) ==
  IF S = {} THEN 0
  ELSE LET x == CHOOSE y \in S : TRUE IN f[x] + SumOver(S \ {x}, f)

(***************************************************************************)
(* State.                                                                  *)
(***************************************************************************)
VARIABLES
  selection,     \* the values held by the form controls (as collectFormData reads them)
  groups,        \* style.display of the conditional field groups, regionSelect.required
  quoteDisplay,  \* the quote panel: the lines shown and the total
  currentStep,   \* the step tracker
  errors,        \* the fields carrying the CSS class "error"
  notification,  \* the notification last shown
  markup,        \* what the page's markup fixes: the controls carrying [required]
  submissions,   \* localStorage 'cna_submissions': the records storeSubmission has pushed
  confirmation,  \* the confirmation screen (the form is hidden while it is shown)
  uploadedFiles, \* the uploaded-files list
  cases,         \* the case list of the case manager (src/js/app.js, its STORAGE_KEY)
  toast,         \* the type of the toast the case manager showed last
  lastEvent,     \* the event handled last (history, not read by any handler)
  events         \* how many events the session has handled (history)

vars == <<selection, groups, quoteDisplay, currentStep, errors, notification, markup,
          submissions, confirmation, uploadedFiles, cases, toast, lastEvent, events>>

\* what the quote and step handlers neither read nor write
untouched == <<submissions, confirmation, uploadedFiles, cases, toast>>

(***************************************************************************)
(* calculateQuote and its helpers.                                         *)
(***************************************************************************)
\* mutant: timestamp is charged whatever else is selected
recordingAmountNoWaiver(value, hasAudioVideo) ==
  IF value \in DOMAIN PRICING.recording THEN PRICING.recording[value] ELSE 0

\* one pass of the forEach body of calculateRecordingAddons
recordingAmount(value, hasAudioVideo) ==
  IF value = "audio" THEN PRICING.recording["audio"]
  ELSE IF value = "audio_video" THEN PRICING.recording["audio_video"]
  ELSE IF value = "timestamp"
       THEN (IF ~hasAudioVideo THEN PRICING.recording["timestamp"] ELSE 0)
  ELSE IF value = "same_day_delivery" THEN PRICING.recording["same_day_delivery"]
  ELSE IF value = "24hr_delivery" THEN PRICING.recording["24hr_delivery"]
  ELSE IF value = "archive_monthly" THEN PRICING.recording["archive_monthly"]
  ELSE IF value = "archive_yearly" THEN PRICING.recording["archive_yearly"]
  ELSE 0

calculateRecordingAddons(selectedAddons) ==
  LET hasAudioVideo == \E cb \in selectedAddons : cb = "audio_video"
  IN  Dollars(SumOver(selectedAddons,
                      [v \in selectedAddons |-> recordingAmount(v, hasAudioVideo)]))

calculateComplexityAddons(selectedAddons) ==
  Dollars(SumOver(selectedAddons,
                  [v \in selectedAddons |-> Rate(PRICING.complexity, v)]))

calculateRemoteUrgency(selectedUrgency) ==
  Dollars(SumOver(selectedUrgency,
                  [v \in selectedUrgency |-> Rate(PRICING.remoteUrgency, v)]))

regionNames ==
  "nj" :> "New Jersey" @@ "dmv" :> "DMV Area" @@ "tn" :> "Tennessee" @@
  "swva" :> "Roanoke/SWVA" @@ "federal" :> "Federal"

getRegionName(region) ==
  IF region \in DOMAIN regionNames THEN regionNames[region] ELSE region

\* mutant: additional apostille documents are charged the full base price
apostilleQuoteNoDiscount(quote, region, numDocs) ==
  LET basePrice == Dollars(Rate(PRICING.apostille, region))
  IN [quote EXCEPT
        !.basePrice = basePrice,
        !.additionalDocsPrice = IF numDocs > 1 THEN (numDocs - 1) * basePrice ELSE 0,
        !.serviceName = IF region # "" THEN <<getRegionName(region), "Apostille">>
                        ELSE <<"Apostille">>,
        !.urgencyPrice = Dollars(Rate(PRICING.urgency, quote.urgency)),
        !.deliveryPrice = Dollars(Rate(PRICING.delivery, quote.delivery))]

\* mutant: the apostille case charges the location fee as poa, trust and loan do
apostilleQuoteWithLocation(quote, region, numDocs) ==
  LET known == region # "" /\ Rate(PRICING.apostille, region) # 0
      basePrice == IF known THEN Dollars(PRICING.apostille[region]) ELSE 0
  IN [quote EXCEPT
        !.basePrice = basePrice,
        !.additionalDocsPrice =
           IF known /\ numDocs > 1
           THEN (numDocs - 1) *
                ((basePrice * (1000 - PRICING.additionalDocDiscount)) \div 1000)
           ELSE 0,
        !.locationPrice = Dollars(Rate(PRICING.location, quote.locationType)),
        !.serviceName = IF region # "" THEN <<getRegionName(region), "Apostille">>
                        ELSE <<"Apostille">>,
        !.urgencyPrice = Dollars(Rate(PRICING.urgency, quote.urgency)),
        !.deliveryPrice = Dollars(Rate(PRICING.delivery, quote.delivery))]

\* mutant: the surcharges are set inside the `if (region && ...)' block
apostilleQuoteSurchargesInside(quote, region, numDocs) ==
  LET known == region # "" /\ Rate(PRICING.apostille, region) # 0
      basePrice == IF known THEN Dollars(PRICING.apostille[region]) ELSE 0
  IN [quote EXCEPT
        !.basePrice = basePrice,
        !.additionalDocsPrice =
           IF known /\ numDocs > 1
           THEN (numDocs - 1) *
                ((basePrice * (1000 - PRICING.additionalDocDiscount)) \div 1000)
           ELSE 0,
        !.serviceName = IF region # "" THEN <<getRegionName(region), "Apostille">>
                        ELSE <<"Apostille">>,
        !.urgencyPrice = IF known THEN Dollars(Rate(PRICING.urgency, quote.urgency)) ELSE 0,
        !.deliveryPrice =
           IF known THEN Dollars(Rate(PRICING.delivery, quote.delivery)) ELSE 0]

\* case 'apostille'
apostilleQuote(quote, region, numDocs) ==
  LET known == region # "" /\ Rate(PRICING.apostille, region) # 0
      basePrice == IF known THEN Dollars(PRICING.apostille[region]) ELSE 0
  IN [quote EXCEPT
        !.basePrice = basePrice,
        !.additionalDocsPrice =
           IF known /\ numDocs > 1
           THEN (numDocs - 1) *
                ((basePrice * (1000 - PRICING.additionalDocDiscount)) \div 1000)
           ELSE 0,
        !.serviceName = IF region # "" THEN <<getRegionName(region), "Apostille">>
                        ELSE <<"Apostille">>,
        !.urgencyPrice = Dollars(Rate(PRICING.urgency, quote.urgency)),
        !.deliveryPrice = Dollars(Rate(PRICING.delivery, quote.delivery))]

\* mutant: the 15% discount is applied to additional notarization documents too
notarizationQuoteDiscounted(quote, table, name, numDocs) ==
  [quote EXCEPT
     !.basePrice = Dollars(table.base),
     !.additionalDocsPrice =
        IF numDocs > 1
        THEN (numDocs - 1) *
             ((Dollars(table.perDoc) * (1000 - PRICING.additionalDocDiscount)) \div 1000)
        ELSE 0,
     !.locationPrice = Dollars(Rate(PRICING.location, quote.locationType)),
     !.serviceName = <<name>>,
     !.urgencyPrice = Dollars(Rate(PRICING.urgency, quote.urgency)),
     !.deliveryPrice = Dollars(Rate(PRICING.delivery, quote.delivery))]

\* cases 'poa', 'trust', 'loan': base, flat per-document rate, location fee
notarizationQuote(quote, table, name, numDocs) ==
  [quote EXCEPT
     !.basePrice = Dollars(table.base),
     !.additionalDocsPrice =
        IF numDocs > 1 THEN (numDocs - 1) * Dollars(table.perDoc) ELSE 0,
     !.locationPrice = Dollars(Rate(PRICING.location, quote.locationType)),
     !.serviceName = <<name>>,
     !.urgencyPrice = Dollars(Rate(PRICING.urgency, quote.urgency)),
     !.deliveryPrice = Dollars(Rate(PRICING.delivery, quote.delivery))]

\* mutant: the hospital case charges the location fee as poa, trust and loan do
hospitalQuoteWithLocation(quote, numDocs) ==
  [quote EXCEPT
     !.basePrice = Dollars(PRICING.hospital.base),
     !.additionalDocsPrice =
        IF numDocs > 1 THEN (numDocs - 1) * Dollars(PRICING.hospital.perDoc) ELSE 0,
     !.locationPrice = Dollars(Rate(PRICING.location, quote.locationType)),
     !.serviceName = <<"Hospital/Nursing Home Notarization">>,
     !.urgencyPrice = Dollars(Rate(PRICING.urgency, quote.urgency)),
     !.deliveryPrice = Dollars(Rate(PRICING.delivery, quote.delivery))]

\* mutant: every document count other than 1 is charged
hospitalQuoteAnyCount(quote, numDocs) ==
  [quote EXCEPT
     !.basePrice = Dollars(PRICING.hospital.base),
     !.additionalDocsPrice =
        IF numDocs # 1 THEN (numDocs - 1) * Dollars(PRICING.hospital.perDoc) ELSE 0,
     !.serviceName = <<"Hospital/Nursing Home Notarization">>,
     !.urgencyPrice = Dollars(Rate(PRICING.urgency, quote.urgency)),
     !.deliveryPrice = Dollars(Rate(PRICING.delivery, quote.delivery))]

\* case 'hospital': no location fee
hospitalQuote(quote, numDocs) ==
  [quote EXCEPT
     !.basePrice = Dollars(PRICING.hospital.base),
     !.additionalDocsPrice =
        IF numDocs > 1 THEN (numDocs - 1) * Dollars(PRICING.hospital.perDoc) ELSE 0,
     !.serviceName = <<"Hospital/Nursing Home Notarization">>,
     !.urgencyPrice = Dollars(Rate(PRICING.urgency, quote.urgency)),
     !.deliveryPrice = Dollars(Rate(PRICING.delivery, quote.delivery))]

\* mutant: the overage is computed without the `sessionHours > 4' test
remoteQuoteOverageUnguarded(quote, sessionHours, selectedAddons, selectedUrgency) ==
  [quote EXCEPT
     !.basePrice = Dollars(PRICING.remote.base),
     !.serviceName = <<"Remote Deposition Support">>,
     !.isRemoteService = TRUE,
     !.sessionOveragePrice = (sessionHours - 4) * Dollars(PRICING.remote.overagePerHour),
     !.recordingPrice = calculateRecordingAddons(selectedAddons),
     !.complexityPrice = calculateComplexityAddons(selectedAddons),
     !.bookingUrgencyPrice = calculateRemoteUrgency(selectedUrgency)]

\* mutant: the overage is charged from the first hour of the session
remoteQuoteOverageFromStart(quote, sessionHours, selectedAddons, selectedUrgency) ==
  [quote EXCEPT
     !.basePrice = Dollars(PRICING.remote.base),
     !.serviceName = <<"Remote Deposition Support">>,
     !.isRemoteService = TRUE,
     !.sessionOveragePrice =
        IF sessionHours > 4
        THEN sessionHours * Dollars(PRICING.remote.overagePerHour) ELSE 0,
     !.recordingPrice = calculateRecordingAddons(selectedAddons),
     !.complexityPrice = calculateComplexityAddons(selectedAddons),
     !.bookingUrgencyPrice = calculateRemoteUrgency(selectedUrgency)]

\* case 'remote': four hours included, then the hourly overage, plus the add-ons
remoteQuote(quote, sessionHours, selectedAddons, selectedUrgency) ==
  [quote EXCEPT
     !.basePrice = Dollars(PRICING.remote.base),
     !.serviceName = <<"Remote Deposition Support">>,
     !.isRemoteService = TRUE,
     !.sessionOveragePrice =
        IF sessionHours > 4
        THEN (sessionHours - 4) * Dollars(PRICING.remote.overagePerHour) ELSE 0,
     !.recordingPrice = calculateRecordingAddons(selectedAddons),
     !.complexityPrice = calculateComplexityAddons(selectedAddons),
     !.bookingUrgencyPrice = calculateRemoteUrgency(selectedUrgency)]

\* mutant: case 'recording_only' prices the complexity add-ons as case 'remote' does
recordingOnlyQuoteWithComplexity(quote, selectedAddons, selectedUrgency) ==
  [quote EXCEPT
     !.basePrice = 0,
     !.serviceName = <<"Digital Recording (Add-on)">>,
     !.isRemoteService = TRUE,
     !.recordingPrice = calculateRecordingAddons(selectedAddons),
     !.complexityPrice = calculateComplexityAddons(selectedAddons),
     !.bookingUrgencyPrice = calculateRemoteUrgency(selectedUrgency)]

\* mutant: case 'recording_only' prices urgency and delivery as the document cases do
recordingOnlyQuoteWithSurcharges(quote, selectedAddons, selectedUrgency) ==
  [quote EXCEPT
     !.basePrice = 0,
     !.serviceName = <<"Digital Recording (Add-on)">>,
     !.isRemoteService = TRUE,
     !.recordingPrice = calculateRecordingAddons(selectedAddons),
     !.bookingUrgencyPrice = calculateRemoteUrgency(selectedUrgency),
     !.urgencyPrice = Dollars(Rate(PRICING.urgency, quote.urgency)),
     !.deliveryPrice = Dollars(Rate(PRICING.delivery, quote.delivery))]

\* case 'recording_only'
recordingOnlyQuote(quote, selectedAddons, selectedUrgency) ==
  [quote EXCEPT
     !.basePrice = 0,
     !.serviceName = <<"Digital Recording (Add-on)">>,
     !.isRemoteService = TRUE,
     !.recordingPrice = calculateRecordingAddons(selectedAddons),
     !.bookingUrgencyPrice = calculateRemoteUrgency(selectedUrgency)]

\* case 'certified_reporter'
certifiedReporterQuote(quote, selectedUrgency) ==
  [quote EXCEPT
     !.basePrice = Dollars(PRICING.certified_reporter.coordination),
     !.serviceName = <<"Certified Reporter Coordination">>,
     !.isRemoteService = TRUE,
     !.bookingUrgencyPrice = calculateRemoteUrgency(selectedUrgency)]

\* the quote object calculateQuote hands to updateQuoteDisplay (amounts in mills);
\* `s' is what the function reads from the form controls
calculateQuote(s) ==
  LET serviceType == s.serviceType
      numDocs == parseIntOr(parseInt(s.numDocuments), 1)
      sessionHours == parseIntOr(s.sessionHours, 4)
      quote == [serviceName |-> <<>>, basePrice |-> 0, numDocs |-> numDocs,
                additionalDocsPrice |-> 0, sessionOveragePrice |-> 0,
                recordingPrice |-> 0, complexityPrice |-> 0, urgencyPrice |-> 0,
                bookingUrgencyPrice |-> 0, deliveryPrice |-> 0, locationPrice |-> 0,
                urgency |-> IF s.urgency = "" THEN "standard" ELSE s.urgency,
                delivery |-> IF s.delivery = "" THEN "pickup" ELSE s.delivery,
                locationType |-> s.locationType, isRemoteService |-> FALSE]
  IN
  CASE serviceType = "apostille" -> apostilleQuote(quote, s.region, numDocs)
    [] serviceType = "poa" ->
         notarizationQuote(quote, PRICING.poa, "Power of Attorney", numDocs)
    [] serviceType = "trust" ->
         notarizationQuote(quote, PRICING.trust, "Trust Notarization", numDocs)
    [] serviceType = "loan" ->
         notarizationQuote(quote, PRICING.loan, "Loan Signing", numDocs)
    [] serviceType = "hospital" -> hospitalQuote(quote, numDocs)
    [] serviceType = "remote" ->
         remoteQuote(quote, sessionHours, s.addons, s.remoteUrgency)
    [] serviceType = "recording_only" ->
         recordingOnlyQuote(quote, s.addons, s.remoteUrgency)
    [] serviceType = "certified_reporter" ->
         certifiedReporterQuote(quote, s.remoteUrgency)
    [] OTHER -> quote

(***************************************************************************)
(* updateQuoteDisplay.  A line of the panel is hidden (display none) or    *)
(* shows a label and an amount in cents.  The text a hidden line keeps in  *)
(* the DOM is neither displayed nor read by the script; a hidden line is   *)
(* recorded as hiddenLine.                                                 *)
(***************************************************************************)
\* Intl.NumberFormat en-US/USD: two decimals, half away from zero; mills to cents
formatCurrency(amount) ==
  IF amount >= 0 THEN (amount + 5) \div 10 ELSE 0 - ((5 - amount) \div 10)

hiddenLine == [shown |-> FALSE, label |-> <<>>, value |-> 0]

\* a line shown only when its amount is positive
amountLine(amount, label) ==
  IF amount > 0 THEN [shown |-> TRUE, label |-> label, value |-> formatCurrency(amount)]
  ELSE hiddenLine

deliveryNames ==
  "standard_mail" :> "Standard Mail" @@ "express" :> "Express Shipping" @@
  "international" :> "International Shipping"

locationNames == "mobile" :> "Mobile Service Fee" @@ "hospital" :> "Hospital/Facility Fee"

\* mutant: the total leaves out the location fee
quoteTotalWithoutLocation(quote) ==
  quote.basePrice + quote.additionalDocsPrice + quote.sessionOveragePrice +
  quote.recordingPrice + quote.complexityPrice + quote.urgencyPrice +
  quote.bookingUrgencyPrice + quote.deliveryPrice

\* the sum written to totalPriceEl
quoteTotal(quote) ==
  quote.basePrice + quote.additionalDocsPrice + quote.sessionOveragePrice +
  quote.recordingPrice + quote.complexityPrice + quote.urgencyPrice +
  quote.bookingUrgencyPrice + quote.deliveryPrice + quote.locationPrice

updateQuoteDisplay(quote) ==
  [ rendered |-> TRUE,
    baseService |->
      [shown |-> TRUE,
       label |-> IF quote.serviceName # <<>> THEN quote.serviceName ELSE <<"Base Service">>,
       value |-> formatCurrency(quote.basePrice)],
    documents |->
      IF quote.isRemoteService
      THEN [shown |-> FALSE, label |-> <<>>, count |-> 0, included |-> FALSE, value |-> 0]
      ELSE IF quote.numDocs > 1
      THEN [shown |-> TRUE, label |-> <<"Additional Documents">>,
            count |-> quote.numDocs - 1, included |-> FALSE,
            value |-> formatCurrency(quote.additionalDocsPrice)]
      ELSE [shown |-> TRUE, label |-> <<"Documents">>, count |-> 1,
            included |-> TRUE, value |-> 0],
    sessionOverage |-> amountLine(quote.sessionOveragePrice, <<"Session Overage">>),
    recording |-> amountLine(quote.recordingPrice, <<"Recording Add-ons">>),
    complexity |-> amountLine(quote.complexityPrice, <<"Complexity Add-ons">>),
    urgency |->
      amountLine(quote.urgencyPrice,
                 IF quote.urgency = "expedited" THEN <<"Expedited Processing">>
                 ELSE <<"Rush Processing">>),
    bookingUrgency |-> amountLine(quote.bookingUrgencyPrice, <<"Booking/Timing Fees">>),
    delivery |->
      amountLine(quote.deliveryPrice,
                 IF quote.delivery \in DOMAIN deliveryNames
                 THEN <<deliveryNames[quote.delivery]>> ELSE <<"Delivery">>),
    location |->
      amountLine(quote.locationPrice,
                 IF quote.locationType \in DOMAIN locationNames
                 THEN <<locationNames[quote.locationType]>> ELSE <<"Location Fee">>),
    total |-> formatCurrency(quoteTotal(quote)) ]

\* the quote panel before updateQuoteDisplay has run: what the markup holds is not
\* a computed quote, and no property reads it
initialDisplay ==
  [ rendered |-> FALSE,
    baseService |-> hiddenLine,
    documents |-> [shown |-> FALSE, label |-> <<>>, count |-> 0, included |-> FALSE,
                   value |-> 0],
    sessionOverage |-> hiddenLine, recording |-> hiddenLine, complexity |-> hiddenLine,
    urgency |-> hiddenLine, bookingUrgency |-> hiddenLine, delivery |-> hiddenLine,
    location |-> hiddenLine, total |-> 0 ]

(***************************************************************************)
(* Initial state: the page as loaded, initializeForm has only registered   *)
(* the handlers.  The form starts empty, step 1 is active, no quote has    *)
(* been computed.                                                          *)
(***************************************************************************)
emptySelection ==
  [serviceType |-> "", region |-> "", locationType |-> "",
   numDocuments |-> Text(<<>>, FALSE),
   sessionHours |-> <<>>, addons |-> {}, remoteUrgency |-> {},
   urgency |-> "", delivery |-> ""]

\* mutant: case 'recording_only' does not hide numDocumentsGroup
visibilityRecordingKeepsDocuments(serviceType) ==
  LET isRemoteService == serviceType \in RemoteServices
  IN [ regionGroup |-> serviceType = "apostille",
       regionRequired |-> serviceType = "apostille",
       locationTypeGroup |-> serviceType \in {"poa", "trust", "loan"},
       sessionHoursGroup |-> serviceType = "remote",
       recordingAddonsGroup |-> serviceType \in {"remote", "recording_only"},
       recordingDeliveryGroup |-> serviceType \in {"remote", "recording_only"},
       complexityGroup |-> serviceType = "remote",
       certifiedReporterGroup |-> serviceType = "certified_reporter",
       numDocumentsGroup |-> serviceType \notin {"remote", "certified_reporter"},
       standardUrgencyGroup |-> ~isRemoteService,
       remoteUrgencyGroup |-> isRemoteService,
       deliveryGroup |-> ~isRemoteService ]

\* the display of the field groups handleServiceTypeChange leaves for a service type
visibility(serviceType) ==
  LET isRemoteService == serviceType \in RemoteServices
  IN [ regionGroup |-> serviceType = "apostille",
       regionRequired |-> serviceType = "apostille",
       locationTypeGroup |-> serviceType \in {"poa", "trust", "loan"},
       sessionHoursGroup |-> serviceType = "remote",
       recordingAddonsGroup |-> serviceType \in {"remote", "recording_only"},
       recordingDeliveryGroup |-> serviceType \in {"remote", "recording_only"},
       complexityGroup |-> serviceType = "remote",
       certifiedReporterGroup |-> serviceType = "certified_reporter",
       numDocumentsGroup |-> ~isRemoteService,
       standardUrgencyGroup |-> ~isRemoteService,
       remoteUrgencyGroup |-> isRemoteService,
       deliveryGroup |-> ~isRemoteService ]

noErrors == [marked |-> {}, clearOnInput |-> {}]

\* The controls that the markup may flag [required] (regionSelect.required is set
\* by handleServiceTypeChange), and the pages the script is loaded into: one flags
\* none of them, one flags them all.
RequirableFields == {"serviceType", "locationType", "numDocuments"}
plainMarkup == [required |-> {}]
Markups == {plainMarkup, [required |-> RequirableFields]}

\* the confirmation screen as the markup has it: not displayed, no case number
noConfirmation == [shown |-> FALSE, caseNumber |-> <<>>]

\* the page `page' loaded in a browser whose localStorage holds the submissions `stored'
InitSession(page, stored) ==
  /\ selection = emptySelection
  /\ groups = visibility("")
  /\ quoteDisplay = initialDisplay
  /\ currentStep = 1
  /\ errors = noErrors
  /\ notification = "none"
  /\ markup = page
  /\ submissions = stored
  /\ confirmation = noConfirmation
  /\ uploadedFiles = <<>>
  /\ cases = <<>>
  /\ toast = "none"
  /\ lastEvent = [type |-> "load", step |-> 0, unchecked |-> {}]
  /\ events = 0

\* a first visit: nothing stored yet
InitPage(page) == InitSession(page, <<>>)

Init == \E page \in Markups : InitPage(page)

\* the page that flags no control of a conditional group
InitPlain == InitPage(plainMarkup)

(***************************************************************************)
(* The change handlers.  The browser stores the new value in the control   *)
(* and fires "change"; the handler then runs to completion.                *)
(***************************************************************************)
changeEvent == [type |-> "change", step |-> 0, unchecked |-> {}]

\* an "input" event on a field runs the once-listeners validateCurrentStep attached
inputOn(field) ==
  IF field \in errors.clearOnInput
  THEN [marked |-> errors.marked \ {field}, clearOnInput |-> errors.clearOnInput \ {field}]
  ELSE errors

\* a control wired straight to calculateQuote takes the value `s' holds
valueChanged(s, field) ==
  /\ selection' = s
  /\ quoteDisplay' = updateQuoteDisplay(calculateQuote(s))
  /\ errors' = inputOn(field)
  /\ UNCHANGED <<groups, currentStep, notification, markup, untouched>>

handleServiceTypeChange(value) ==
  /\ value # selection.serviceType
  /\ selection' = [selection EXCEPT !.serviceType = value]
  /\ groups' = visibility(value)
  /\ quoteDisplay' = updateQuoteDisplay(calculateQuote(selection'))
  /\ errors' = inputOn("serviceType")
  /\ lastEvent' = changeEvent
  /\ UNCHANGED <<currentStep, notification, markup, untouched>>

regionChange(value) ==
  /\ value # selection.region
  /\ valueChanged([selection EXCEPT !.region = value], "region")
  /\ lastEvent' = changeEvent

locationTypeChange(value) ==
  /\ value # selection.locationType
  /\ valueChanged([selection EXCEPT !.locationType = value], "locationType")
  /\ lastEvent' = changeEvent

numDocumentsChange(value) ==
  /\ value # selection.numDocuments
  /\ valueChanged([selection EXCEPT !.numDocuments = value], "numDocuments")
  /\ lastEvent' = changeEvent

sessionHoursChange(value) ==
  /\ value # selection.sessionHours
  /\ valueChanged([selection EXCEPT !.sessionHours = value], "sessionHours")
  /\ lastEvent' = changeEvent

urgencyChange(value) ==
  /\ value # selection.urgency
  /\ valueChanged([selection EXCEPT !.urgency = value], "urgency")
  /\ lastEvent' = changeEvent

deliveryChange(value) ==
  /\ value # selection.delivery
  /\ valueChanged([selection EXCEPT !.delivery = value], "delivery")
  /\ lastEvent' = changeEvent

\* a click toggles the box `value' of a check box group
toggled(set, value) == IF value \in set THEN set \ {value} ELSE set \cup {value}

remoteUrgencyChange(value) ==
  /\ valueChanged([selection EXCEPT !.remoteUrgency = toggled(@, value)], "remoteUrgency")
  /\ lastEvent' = changeEvent

\* mutant: audio_video does not clear audio (the else-if branch is missing)
uncheckedByAudioOnly(value, checked) ==
  (IF value = "audio" /\ checked THEN {"audio_video"} ELSE {})
  \cup
  (IF value \in {"same_day_delivery", "24hr_delivery"} /\ checked
   THEN {IF value = "same_day_delivery" THEN "24hr_delivery" ELSE "same_day_delivery"}
   ELSE {})
  \cup
  (IF value \in {"archive_monthly", "archive_yearly"} /\ checked
   THEN {IF value = "archive_monthly" THEN "archive_yearly" ELSE "archive_monthly"}
   ELSE {})

\* mutant: the archive options are not treated as exclusive
uncheckedByNoArchive(value, checked) ==
  (IF value = "audio" /\ checked THEN {"audio_video"}
   ELSE IF value = "audio_video" /\ checked THEN {"audio"} ELSE {})
  \cup
  (IF value \in {"same_day_delivery", "24hr_delivery"} /\ checked
   THEN {IF value = "same_day_delivery" THEN "24hr_delivery" ELSE "same_day_delivery"}
   ELSE {})

\* mutant: selecting audio_video also unchecks timestamp, which it bundles
uncheckedByBundleToo(value, checked) ==
  (IF value = "audio" /\ checked THEN {"audio_video"}
   ELSE IF value = "audio_video" /\ checked THEN {"audio", "timestamp"} ELSE {})
  \cup
  (IF value \in {"same_day_delivery", "24hr_delivery"} /\ checked
   THEN {IF value = "same_day_delivery" THEN "24hr_delivery" ELSE "same_day_delivery"}
   ELSE {})
  \cup
  (IF value \in {"archive_monthly", "archive_yearly"} /\ checked
   THEN {IF value = "archive_monthly" THEN "archive_yearly" ELSE "archive_monthly"}
   ELSE {})

\* the boxes handleAddonChange unchecks when `value' has just become `checked'
uncheckedBy(value, checked) ==
  (IF value = "audio" /\ checked THEN {"audio_video"}
   ELSE IF value = "audio_video" /\ checked THEN {"audio"} ELSE {})
  \cup
  (IF value \in {"same_day_delivery", "24hr_delivery"} /\ checked
   THEN {IF value = "same_day_delivery" THEN "24hr_delivery" ELSE "same_day_delivery"}
   ELSE {})
  \cup
  (IF value \in {"archive_monthly", "archive_yearly"} /\ checked
   THEN {IF value = "archive_monthly" THEN "archive_yearly" ELSE "archive_monthly"}
   ELSE {})

\* mutant: the handler flips the membership of `value' instead of reading the box
addonsAfterChangeFlipping(currentSet, value, checked) ==
  toggled(currentSet, value) \ uncheckedBy(value, value \notin currentSet)

\* the boxes checked once handleAddonChange has run on the boxes `currentSet', the
\* box `value' being `checked' when the handler reads it
addonsAfterChange(currentSet, value, checked) ==
  (IF checked THEN currentSet \cup {value} ELSE currentSet \ {value})
  \ uncheckedBy(value, checked)

\* mutant: the quote is computed before the partner box is cleared
handleAddonChangeQuoteFirst(value) ==
  LET clicked == toggled(selection.addons, value)
      checked == value \in clicked
      cleared == uncheckedBy(value, checked)
  IN /\ selection' = [selection EXCEPT !.addons = clicked \ cleared]
     /\ quoteDisplay' =
          updateQuoteDisplay(calculateQuote([selection EXCEPT !.addons = clicked]))
     /\ errors' = inputOn("addons")
     /\ lastEvent' = [changeEvent EXCEPT !.unchecked = cleared \cap clicked]
     /\ UNCHANGED <<groups, currentStep, notification, markup, untouched>>

\* lastEvent.unchecked remembers the checked boxes the handler cleared
handleAddonChange(value) ==
  LET clicked == toggled(selection.addons, value)
      checked == value \in clicked
      cleared == uncheckedBy(value, checked)
  IN /\ valueChanged([selection EXCEPT
                        !.addons = addonsAfterChange(selection.addons, value, checked)],
                     "addons")
     /\ lastEvent' = [changeEvent EXCEPT !.unchecked = cleared \cap clicked]

(***************************************************************************)
(* Step navigation.                                                        *)
(***************************************************************************)
\* the number of .form-step elements of the page
LastStep == 4

\* the step whose element holds a control: the service selection is step 1, the
\* details of the request step 2
stepOf(field) == IF field = "numDocuments" THEN 2 ELSE 1

\* the [required] controls inside the element of a step: the controls the markup
\* flags, and region while handleServiceTypeChange has set regionSelect.required
requiredFields(step) ==
  {f \in markup.required \cup (IF groups.regionRequired THEN {"region"} ELSE {}) :
     stepOf(f) = step}

\* field.offsetParent !== null, for a field of the active step: the field is not
\* inside a group with style.display 'none'
isVisible(field) ==
  CASE field = "region" -> groups.regionGroup
    [] field = "locationType" -> groups.locationTypeGroup
    [] field = "numDocuments" -> groups.numDocumentsGroup
    [] OTHER -> TRUE

\* !field.value
isEmpty(field) ==
  CASE field = "region" -> selection.region = ""
    [] field = "locationType" -> selection.locationType = ""
    [] field = "numDocuments" -> selection.numDocuments = Text(<<>>, FALSE)
    [] OTHER -> selection.serviceType = ""

\* validateCurrentStep: the verdict, the fields it marks and the notification it shows
validateCurrentStep ==
  LET failing == {f \in requiredFields(currentStep) : isVisible(f) /\ isEmpty(f)}
      special == currentStep = 1 /\ selection.serviceType = "apostille"
                 /\ selection.region = ""
      isValid == failing = {} /\ ~special
  IN [ isValid |-> isValid,
       errors |-> [marked |-> errors.marked \cup failing \cup
                              (IF special THEN {"region"} ELSE {}),
                   clearOnInput |-> errors.clearOnInput \cup failing],
       notification |-> IF isValid THEN notification ELSE "error" ]

\* mutant: entering step 3 adds the new total to the total already displayed
goToStepAddingUp(stepNumber) ==
  /\ quoteDisplay' =
       IF stepNumber = 3
       THEN [updateQuoteDisplay(calculateQuote(selection))
               EXCEPT !.total = @ + quoteDisplay.total]
       ELSE quoteDisplay
  /\ currentStep' = stepNumber

\* mutant: the step is shown without computing the quote
goToStepWithoutQuote(stepNumber) ==
  /\ quoteDisplay' = quoteDisplay
  /\ currentStep' = stepNumber

\* goToStep: the quote is computed before step 3 is shown
goToStep(stepNumber) ==
  /\ quoteDisplay' = IF stepNumber = 3 THEN updateQuoteDisplay(calculateQuote(selection))
                     ELSE quoteDisplay
  /\ currentStep' = stepNumber

\* mutant: the click goes to the next step whatever the validation says
btnNextUnchecked ==
  LET nextStep == currentStep + 1
      verdict == validateCurrentStep
  IN /\ currentStep < LastStep
     /\ errors' = verdict.errors
     /\ notification' = verdict.notification
     /\ goToStep(nextStep)
     /\ lastEvent' = [type |-> "next", step |-> nextStep, unchecked |-> {}]
     /\ UNCHANGED <<selection, groups, markup, untouched>>

\* mutant: the test of the verdict is inverted
btnNextInverted ==
  LET nextStep == currentStep + 1
      verdict == validateCurrentStep
  IN /\ currentStep < LastStep
     /\ errors' = verdict.errors
     /\ notification' = verdict.notification
     /\ IF ~verdict.isValid THEN goToStep(nextStep)
        ELSE UNCHANGED <<quoteDisplay, currentStep>>
     /\ lastEvent' = [type |-> "next", step |-> nextStep, unchecked |-> {}]
     /\ UNCHANGED <<selection, groups, markup, untouched>>

\* click on the .btn-next of the active step (data-next is the following step)
btnNext ==
  LET nextStep == currentStep + 1
      verdict == validateCurrentStep
  IN /\ currentStep < LastStep
     /\ errors' = verdict.errors
     /\ notification' = verdict.notification
     /\ IF verdict.isValid THEN goToStep(nextStep)
        ELSE UNCHANGED <<quoteDisplay, currentStep>>
     /\ lastEvent' = [type |-> "next", step |-> nextStep, unchecked |-> {}]
     /\ UNCHANGED <<selection, groups, markup, untouched>>

\* mutant: going back to the first step resets the form controls
btnPrevResetting ==
  LET prevStep == currentStep - 1
  IN /\ currentStep > 1
     /\ goToStep(prevStep)
     /\ selection' = IF prevStep = 1 THEN emptySelection ELSE selection
     /\ lastEvent' = [type |-> "prev", step |-> prevStep, unchecked |-> {}]
     /\ UNCHANGED <<groups, errors, notification, markup, untouched>>

\* mutant: the click validates the step it leaves, as .btn-next does
btnPrevValidated ==
  LET prevStep == currentStep - 1
      verdict == validateCurrentStep
  IN /\ currentStep > 1
     /\ errors' = verdict.errors
     /\ notification' = verdict.notification
     /\ IF verdict.isValid THEN goToStep(prevStep)
        ELSE UNCHANGED <<quoteDisplay, currentStep>>
     /\ lastEvent' = [type |-> "prev", step |-> prevStep, unchecked |-> {}]
     /\ UNCHANGED <<selection, groups, markup, untouched>>

\* click on the .btn-prev of the active step (data-prev is the preceding step)
btnPrev ==
  LET prevStep == currentStep - 1
  IN /\ currentStep > 1
     /\ goToStep(prevStep)
     /\ lastEvent' = [type |-> "prev", step |-> prevStep, unchecked |-> {}]
     /\ UNCHANGED <<selection, groups, errors, notification, markup, untouched>>

\* the notification removes itself after five seconds, or on its close button
notificationRemoved ==
  /\ notification # "none"
  /\ notification' = "none"
  /\ lastEvent' = [type |-> "timer", step |-> 0, unchecked |-> {}]
  /\ UNCHANGED <<selection, groups, quoteDisplay, currentStep, errors, markup, untouched>>

(***************************************************************************)
(* Submission.  The submit event of the form reaches handleFormSubmit      *)
(* whatever step is active: the handler validates the active step and, if  *)
(* it is valid, stores the request and shows the confirmation screen.  The *)
(* contact controls (name, email, phone, notes) are not part of the        *)
(* selection and are left out of the record.                               *)
(***************************************************************************)
\* generateCaseId: 'CNA-' + the clock + four random characters; two of its results
CaseIds == {"CNA-A", "CNA-B"}

\* collectFormData: the controls as they are, and the text of totalPriceEl
collectFormData ==
  [ serviceType |-> selection.serviceType, region |-> selection.region,
    locationType |-> selection.locationType, numDocuments |-> selection.numDocuments,
    sessionHours |-> selection.sessionHours, addons |-> selection.addons,
    remoteUrgency |-> selection.remoteUrgency, urgency |-> selection.urgency,
    delivery |-> selection.delivery, estimatedTotal |-> quoteDisplay.total ]

\* the record handleFormSubmit hands to storeSubmission
formDataOf(caseId) ==
  [ formData |-> collectFormData, caseId |-> caseId,
    files |-> [i \in 1..Len(uploadedFiles) |-> uploadedFiles[i].name] ]

\* storeSubmission: the stored array with the record pushed
storeSubmission(data) == Append(submissions, data)

\* mutant: the request is stored whatever the validation says
handleFormSubmitUnvalidated(caseId) ==
  LET verdict == validateCurrentStep
  IN /\ errors' = verdict.errors
     /\ submissions' = storeSubmission(formDataOf(caseId))
     /\ confirmation' = [shown |-> TRUE, caseNumber |-> <<caseId>>]
     /\ notification' = "success"
     /\ lastEvent' = [type |-> "submit", step |-> currentStep, unchecked |-> {}]
     /\ UNCHANGED <<selection, groups, quoteDisplay, currentStep, markup,
                    uploadedFiles, cases, toast>>

\* handleFormSubmit, `caseId' being what generateCaseId returns
handleFormSubmit(caseId) ==
  LET verdict == validateCurrentStep
  IN /\ errors' = verdict.errors
     /\ IF verdict.isValid
        THEN /\ submissions' = storeSubmission(formDataOf(caseId))
             /\ confirmation' = [shown |-> TRUE, caseNumber |-> <<caseId>>]
             /\ notification' = "success"
        ELSE /\ notification' = verdict.notification
             /\ UNCHANGED <<submissions, confirmation>>
     /\ lastEvent' = [type |-> "submit", step |-> currentStep, unchecked |-> {}]
     /\ UNCHANGED <<selection, groups, quoteDisplay, currentStep, markup,
                    uploadedFiles, cases, toast>>

(***************************************************************************)
(* File upload.  A file is what handleFiles reads of it: name, size in     *)
(* bytes and MIME type.  A drop or a choice in the file dialog hands over  *)
(* a batch of files, handled in order.                                     *)
(***************************************************************************)
maxSize == 10 * 1024 * 1024
allowedTypes == {"application/pdf", "image/jpeg", "image/png"}

\* the longest batch handed over at once
MaxBatch == 2

\* the files a visitor has at hand; the browser derives the type from the extension
FileTypes ==
  "deed.pdf" :> "application/pdf" @@ "scan.png" :> "image/png" @@
  "stamp.gif" :> "image/gif"
FileSizes == {1024, maxSize, maxSize + 1}
Files == {[name |-> n, size |-> s, type |-> FileTypes[n]] :
            n \in DOMAIN FileTypes, s \in FileSizes}
Batches == UNION {[1..n -> Files] : n \in 1..MaxBatch}

\* uploadedFiles.some(f => f.name === file.name && f.size === file.size)
isDuplicate(list, file) ==
  \E i \in 1..Len(list) : list[i].name = file.name /\ list[i].size = file.size

\* mutant: the duplicate check is missing
passesChecksWithoutDuplicates(list, file) ==
  /\ file.type \in allowedTypes
  /\ ~(file.size > maxSize)

\* the forEach body of handleFiles reaches uploadedFiles.push(file)
passesChecks(list, file) ==
  /\ file.type \in allowedTypes
  /\ ~(file.size > maxSize)
  /\ ~isDuplicate(list, file)

RECURSIVE pushEach(_, _)
\* Array.from(files).forEach(...): the list after the files have been handled in order
pushEach(list, files) ==
  IF files = <<>> THEN list
  ELSE pushEach(IF passesChecks(list, Head(files)) THEN Append(list, Head(files))
                ELSE list,
                Tail(files))

\* handleFiles: every file that fails a check raises the error notification
handleFiles(files) ==
  LET list == pushEach(uploadedFiles, files)
      rejected == Len(files) - (Len(list) - Len(uploadedFiles))
  IN /\ uploadedFiles' = list
     /\ notification' = IF rejected > 0 THEN "error" ELSE notification
     /\ lastEvent' = [type |-> "files", step |-> 0, unchecked |-> {}]
     /\ UNCHANGED <<selection, groups, quoteDisplay, currentStep, errors, markup,
                    submissions, confirmation, cases, toast>>

\* click on the .file-remove button of entry `index' (data-index is index - 1):
\* uploadedFiles.splice(index, 1)
fileRemove(index) ==
  /\ index \in 1..Len(uploadedFiles)
  /\ uploadedFiles' = [i \in 1..(Len(uploadedFiles) - 1) |->
                         IF i < index THEN uploadedFiles[i] ELSE uploadedFiles[i + 1]]
  /\ lastEvent' = [type |-> "remove", step |-> 0, unchecked |-> {}]
  /\ UNCHANGED <<selection, groups, quoteDisplay, currentStep, errors, notification,
                 markup, submissions, confirmation, cases, toast>>

(***************************************************************************)
(* The case manager (src/js/app.js) keeps its cases in localStorage.  A    *)
(* case is an object with an id and the client's data; an imported file is *)
(* text that JSON.parse rejects, a JSON value that is no array, or an      *)
(* array whose items are case objects (the id may be missing: undefined,   *)
(* written <<>>) or null.                                                  *)
(***************************************************************************)
\* the longest array an imported file holds
MaxImport == 2

ManagerCaseIds == {"CNA-1", "CNA-2", "CNA-3"}
ClientNames == {"Ann", "Bob"}
caseObject(id, clientName) == [isNull |-> FALSE, id |-> id, clientName |-> clientName]
nullItem == [isNull |-> TRUE, id |-> <<>>, clientName |-> ""]
ImportItems ==
  {caseObject(id, name) : id \in {<<>>} \cup {<<k>> : k \in ManagerCaseIds},
                          name \in ClientNames}
  \cup {nullItem}
ImportedFiles ==
  {[kind |-> "text", items |-> <<>>], [kind |-> "value", items |-> <<>>]}
  \cup {[kind |-> "array", items |-> items] :
          items \in UNION {[1..n -> ImportItems] : n \in 0..MaxImport}}

\* mutant: a case whose id is already in the list replaces the listed one
mergeOneOverwriting(mergedCases, imported) ==
  IF \E i \in 1..Len(mergedCases) : mergedCases[i].id = imported.id
  THEN [i \in 1..Len(mergedCases) |->
          IF mergedCases[i].id = imported.id THEN imported ELSE mergedCases[i]]
  ELSE Append(mergedCases, imported)

\* the forEach body of importCases: findIndex(c => c.id === imported.id) === -1
mergeOne(mergedCases, imported) ==
  IF \E i \in 1..Len(mergedCases) : mergedCases[i].id = imported.id
  THEN mergedCases
  ELSE Append(mergedCases, imported)

RECURSIVE mergeEach(_, _)
\* importedCases.forEach(...): reading the id of null throws, which ends the loop
mergeEach(mergedCases, importedCases) ==
  IF importedCases = <<>> THEN [threw |-> FALSE, mergedCases |-> mergedCases]
  ELSE IF Head(importedCases).isNull THEN [threw |-> TRUE, mergedCases |-> mergedCases]
  ELSE mergeEach(mergeOne(mergedCases, Head(importedCases)), Tail(importedCases))

\* reader.onload of importCases: what the handler leaves in localStorage, and its toast
importOutcome(existingCases, file) ==
  LET merge == mergeEach(existingCases, file.items)
  IN IF file.kind # "array" \/ merge.threw
     THEN [cases |-> existingCases, toast |-> "error"]
     ELSE [cases |-> merge.mergedCases, toast |-> "success"]

importCases(file) ==
  /\ cases' = importOutcome(cases, file).cases
  /\ toast' = importOutcome(cases, file).toast
  /\ lastEvent' = [type |-> "import", step |-> 0, unchecked |-> {}]
  /\ UNCHANGED <<selection, groups, quoteDisplay, currentStep, errors, notification,
                 markup, submissions, confirmation, uploadedFiles>>

\* deleteCase, confirmed, from the delete button of a listed case
deleteCase(caseId) ==
  LET kept(c) == c.id # <<caseId>>
  IN /\ \E i \in 1..Len(cases) : cases[i].id = <<caseId>>
     /\ cases' = SelectSeq(cases, kept)
     /\ toast' = "success"
     /\ lastEvent' = [type |-> "delete", step |-> 0, unchecked |-> {}]
     /\ UNCHANGED <<selection, groups, quoteDisplay, currentStep, errors, notification,
                    markup, submissions, confirmation, uploadedFiles>>

(***************************************************************************)
(* The earlier script of the repository (src/unnamed/part_001): the same   *)
(* form without the remote services.  It has the catalog entries, the      *)
(* helpers and the step tracker of src/app.js; what differs is below.  Its *)
(* quote object has no remote fields: they stay 0 here, and its panel has  *)
(* no remote lines: they stay hidden.                                      *)
(***************************************************************************)
\* calculateQuote: urgency and delivery are priced before the switch; each case
\* sets the prices the same case of src/app.js sets
calculateQuote_part001(s) ==
  LET serviceType == s.serviceType
      numDocs == parseIntOr(parseInt(s.numDocuments), 1)
      urgency == IF s.urgency = "" THEN "standard" ELSE s.urgency
      delivery == IF s.delivery = "" THEN "pickup" ELSE s.delivery
      quote == [serviceName |-> <<>>, basePrice |-> 0, numDocs |-> numDocs,
                additionalDocsPrice |-> 0, sessionOveragePrice |-> 0,
                recordingPrice |-> 0, complexityPrice |-> 0,
                urgencyPrice |-> Dollars(Rate(PRICING.urgency, urgency)),
                bookingUrgencyPrice |-> 0,
                deliveryPrice |-> Dollars(Rate(PRICING.delivery, delivery)),
                locationPrice |-> 0, urgency |-> urgency, delivery |-> delivery,
                locationType |-> s.locationType, isRemoteService |-> FALSE]
  IN
  CASE serviceType = "apostille" -> apostilleQuote(quote, s.region, numDocs)
    [] serviceType = "poa" ->
         notarizationQuote(quote, PRICING.poa, "Power of Attorney", numDocs)
    [] serviceType = "trust" ->
         notarizationQuote(quote, PRICING.trust, "Trust Notarization", numDocs)
    [] serviceType = "loan" ->
         notarizationQuote(quote, PRICING.loan, "Loan Signing", numDocs)
    [] serviceType = "hospital" -> hospitalQuote(quote, numDocs)
    [] OTHER -> quote

\* updateQuoteDisplay: the base, documents, urgency, delivery and location lines and
\* the total of the five amounts, written as src/app.js writes them
updateQuoteDisplay_part001(quote) == updateQuoteDisplay(quote)

valueChanged_part001(s, field) ==
  /\ selection' = s
  /\ quoteDisplay' = updateQuoteDisplay_part001(calculateQuote_part001(s))
  /\ errors' = inputOn(field)
  /\ lastEvent' = changeEvent
  /\ UNCHANGED <<groups, currentStep, notification, markup, untouched>>

\* handleServiceTypeChange: only the region and location groups are toggled
handleServiceTypeChange_part001(value) ==
  /\ value # selection.serviceType
  /\ selection' = [selection EXCEPT !.serviceType = value]
  /\ groups' = [groups EXCEPT
                  !.regionGroup = value = "apostille",
                  !.regionRequired = value = "apostille",
                  !.locationTypeGroup = value \in {"poa", "trust", "loan"}]
  /\ quoteDisplay' = updateQuoteDisplay_part001(calculateQuote_part001(selection'))
  /\ errors' = inputOn("serviceType")
  /\ lastEvent' = changeEvent
  /\ UNCHANGED <<currentStep, notification, markup, untouched>>

\* the controls wired straight to calculateQuote
controlChange_part001(field, value) ==
  /\ value # selection[field]
  /\ valueChanged_part001([selection EXCEPT ![field] = value], field)

\* validateCurrentStep: every [required] control of the step is checked, hidden or not
validateCurrentStep_part001 ==
  LET failing == {f \in requiredFields(currentStep) : isEmpty(f)}
      special == currentStep = 1 /\ selection.serviceType = "apostille"
                 /\ selection.region = ""
      isValid == failing = {} /\ ~special
  IN [ isValid |-> isValid,
       errors |-> [marked |-> errors.marked \cup failing \cup
                              (IF special THEN {"region"} ELSE {}),
                   clearOnInput |-> errors.clearOnInput \cup failing],
       notification |-> IF isValid THEN notification ELSE "error" ]

goToStep_part001(stepNumber) ==
  /\ quoteDisplay' =
       IF stepNumber = 3
       THEN updateQuoteDisplay_part001(calculateQuote_part001(selection))
       ELSE quoteDisplay
  /\ currentStep' = stepNumber

btnNext_part001 ==
  LET nextStep == currentStep + 1
      verdict == validateCurrentStep_part001
  IN /\ currentStep < LastStep
     /\ errors' = verdict.errors
     /\ notification' = verdict.notification
     /\ IF verdict.isValid THEN goToStep_part001(nextStep)
        ELSE UNCHANGED <<quoteDisplay, currentStep>>
     /\ lastEvent' = [type |-> "next", step |-> nextStep, unchecked |-> {}]
     /\ UNCHANGED <<selection, groups, markup, untouched>>

btnPrev_part001 ==
  LET prevStep == currentStep - 1
  IN /\ currentStep > 1
     /\ goToStep_part001(prevStep)
     /\ lastEvent' = [type |-> "prev", step |-> prevStep, unchecked |-> {}]
     /\ UNCHANGED <<selection, groups, errors, notification, markup, untouched>>

(***************************************************************************)
(* Specifications.  Spec runs every handler for a session of at most       *)
(* MaxEvents events; the others explore without a depth bound the sessions *)
(* that use one part of the form.  No handler of SpecNotary and SpecRemote *)
(* reads the markup: they run on the plain page.                           *)
(***************************************************************************)
MaxEvents == 3

\* the service types offered to a session that prices documents / remote sessions
DocumentServices == ServiceTypes \ RemoteServices
SessionServices == {""} \cup RemoteServices

\* one more event of a bounded session / an event of an unbounded one
tick == events < MaxEvents /\ events' = events + 1
idle == UNCHANGED events

Next ==
  \/ tick /\ \E v \in ServiceTypes : handleServiceTypeChange(v)
  \/ tick /\ \E v \in Regions : regionChange(v)
  \/ tick /\ \E v \in LocationTypes : locationTypeChange(v)
  \/ tick /\ \E v \in NumDocumentsValues : numDocumentsChange(v)
  \/ tick /\ \E v \in SessionHoursValues : sessionHoursChange(v)
  \/ tick /\ \E v \in UrgencyValues : urgencyChange(v)
  \/ tick /\ \E v \in DeliveryValues : deliveryChange(v)
  \/ tick /\ \E v \in AddonValues : handleAddonChange(v)
  \/ tick /\ \E v \in RemoteUrgencyValues : remoteUrgencyChange(v)
  \/ tick /\ btnNext
  \/ tick /\ btnPrev
  \/ tick /\ notificationRemoved

Spec == Init /\ [][Next]_vars

NextNotary ==
  \/ idle /\ \E v \in DocumentServices : handleServiceTypeChange(v)
  \/ idle /\ \E v \in Regions : regionChange(v)
  \/ idle /\ \E v \in LocationTypes : locationTypeChange(v)
  \/ idle /\ \E v \in NumDocumentsValues : numDocumentsChange(v)
  \/ idle /\ \E v \in UrgencyValues : urgencyChange(v)
  \/ idle /\ \E v \in DeliveryValues : deliveryChange(v)

SpecNotary == InitPlain /\ [][NextNotary]_vars

NextRemote ==
  \/ idle /\ \E v \in SessionServices : handleServiceTypeChange(v)
  \/ idle /\ \E v \in SessionHoursValues : sessionHoursChange(v)
  \/ idle /\ \E v \in AddonValues : handleAddonChange(v)
  \/ idle /\ \E v \in RemoteUrgencyValues : remoteUrgencyChange(v)

SpecRemote == InitPlain /\ [][NextRemote]_vars

\* the values a session that walks through the steps gives the detail controls
NavLocationTypes == {"", "mobile"}
NavNumDocuments == {Text(<<>>, FALSE), Text(<<2>>, FALSE)}

NextNav ==
  \/ idle /\ \E v \in ServiceTypes : handleServiceTypeChange(v)
  \/ idle /\ \E v \in Regions : regionChange(v)
  \/ idle /\ \E v \in NavLocationTypes : locationTypeChange(v)
  \/ idle /\ \E v \in NavNumDocuments : numDocumentsChange(v)
  \/ idle /\ btnNext
  \/ idle /\ btnPrev
  \/ idle /\ notificationRemoved

SpecNav == Init /\ [][NextNav]_vars

\* a session of at most MaxEvents events on the page of the earlier script
NextLegacy ==
  \/ tick /\ \E v \in DocumentServices : handleServiceTypeChange_part001(v)
  \/ tick /\ \E v \in Regions : controlChange_part001("region", v)
  \/ tick /\ \E v \in LocationTypes : controlChange_part001("locationType", v)
  \/ tick /\ \E v \in NumDocumentsValues : controlChange_part001("numDocuments", v)
  \/ tick /\ \E v \in UrgencyValues : controlChange_part001("urgency", v)
  \/ tick /\ \E v \in DeliveryValues : controlChange_part001("delivery", v)
  \/ tick /\ btnNext_part001
  \/ tick /\ btnPrev_part001
  \/ tick /\ notificationRemoved

SpecLegacy == Init /\ [][NextLegacy]_vars

\* A session that ends with a submission.  The browser may hold a request stored
\* by an earlier visit; once the confirmation screen has replaced the form, no
\* control of the form can be operated.
SubmitServices == {"", "apostille", "remote"}
SubmitRegions == {"", "nj"}
earlierSubmission ==
  [ formData |-> [emptySelection EXCEPT !.serviceType = "hospital"]
                 @@ [estimatedTotal |-> 10000],
    caseId |-> "CNA-A", files |-> <<>> ]
StoredBefore == {<<>>, <<earlierSubmission>>}
formDisplayed == ~confirmation.shown

InitSubmit == \E page \in Markups : \E stored \in StoredBefore : InitSession(page, stored)

NextSubmit ==
  \/ idle /\ formDisplayed /\ \E v \in SubmitServices : handleServiceTypeChange(v)
  \/ idle /\ formDisplayed /\ \E v \in SubmitRegions : regionChange(v)
  \/ idle /\ formDisplayed /\ \E v \in NavNumDocuments : numDocumentsChange(v)
  \/ idle /\ formDisplayed /\ btnNext
  \/ idle /\ formDisplayed /\ btnPrev
  \/ idle /\ formDisplayed /\ \E id \in CaseIds : handleFormSubmit(id)
  \/ idle /\ notificationRemoved

SpecSubmit == InitSubmit /\ [][NextSubmit]_vars

\* a session at the upload area
NextUpload ==
  \/ idle /\ \E files \in Batches : handleFiles(files)
  \/ idle /\ \E index \in 1..Len(uploadedFiles) : fileRemove(index)
  \/ idle /\ notificationRemoved

SpecUpload == InitPlain /\ [][NextUpload]_vars

\* a session of the case manager
NextManager ==
  \/ idle /\ \E file \in ImportedFiles : importCases(file)
  \/ idle /\ \E caseId \in ManagerCaseIds : deleteCase(caseId)

SpecManager == InitPlain /\ [][NextManager]_vars

(***************************************************************************)
(* Properties.                                                             *)
(***************************************************************************)
\* the quote of the current selection, and the amount a line of the panel displays
currentQuote == calculateQuote(selection)
shownAmount(line) == IF line.shown THEN line.value ELSE 0

ExclusivityGroups ==
  { {"audio", "audio_video"}, {"same_day_delivery", "24hr_delivery"},
    {"archive_monthly", "archive_yearly"} }

\* C1: once a quote is displayed, the displayed total is the sum of the amounts of
\* the visible lines (a documents line reading "Included" counts 0), and every
\* component of the quote that is not zero is a visible line showing that amount.
C1_TotalIsSumOfVisibleLines ==
  quoteDisplay.rendered =>
    /\ quoteDisplay.total =
         shownAmount(quoteDisplay.baseService) + shownAmount(quoteDisplay.documents) +
         shownAmount(quoteDisplay.sessionOverage) + shownAmount(quoteDisplay.recording) +
         shownAmount(quoteDisplay.complexity) + shownAmount(quoteDisplay.urgency) +
         shownAmount(quoteDisplay.bookingUrgency) + shownAmount(quoteDisplay.delivery) +
         shownAmount(quoteDisplay.location)
    /\ quoteDisplay.documents.included => quoteDisplay.documents.value = 0
    /\ \A c \in { <<currentQuote.basePrice, quoteDisplay.baseService>>,
                  <<currentQuote.additionalDocsPrice, quoteDisplay.documents>>,
                  <<currentQuote.sessionOveragePrice, quoteDisplay.sessionOverage>>,
                  <<currentQuote.recordingPrice, quoteDisplay.recording>>,
                  <<currentQuote.complexityPrice, quoteDisplay.complexity>>,
                  <<currentQuote.urgencyPrice, quoteDisplay.urgency>>,
                  <<currentQuote.bookingUrgencyPrice, quoteDisplay.bookingUrgency>>,
                  <<currentQuote.deliveryPrice, quoteDisplay.delivery>>,
                  <<currentQuote.locationPrice, quoteDisplay.location>> } :
         c[1] # 0 => c[2].shown /\ c[2].value * 10 = c[1]

\* a loan signing at a hospital, rush: four visible lines that add up to the total
C1_Witness ==
  /\ quoteDisplay.rendered
  /\ quoteDisplay.location.shown /\ quoteDisplay.urgency.shown
  /\ quoteDisplay.documents.shown
  /\ quoteDisplay.total = 25500

\* C2: a toggle that selects one member of an exclusivity group while the other
\* member is selected leaves the first in the addon set and the second out of it.
C2_SelectingOneDeselectsTheOther ==
  [][\A g \in ExclusivityGroups : \A a \in g : \A b \in g \ {a} :
       (b \in selection.addons /\ a \notin selection.addons /\ a \in selection'.addons)
         => b \notin selection'.addons]_vars

\* audio_video has just been selected while audio was: audio is cleared
C2_Witness ==
  /\ lastEvent.unchecked = {"audio"}
  /\ "audio_video" \in selection.addons
  /\ "audio" \notin selection.addons

\* C3: no addon set the quote computation reads holds both members of a group.
C3_AtMostOnePerGroup ==
  \A g \in ExclusivityGroups : Cardinality(selection.addons \cap g) <= 1

\* one member of each group selected, the last of them by replacing its partner
C3_Witness ==
  /\ {"audio", "24hr_delivery", "archive_yearly"} \subseteq selection.addons
  /\ lastEvent.unchecked = {"archive_monthly"}
  /\ selection.serviceType = "recording_only"

\* the recording add-ons priced from the catalog, timestamp apart
recordingWithoutTimestamp(addons) ==
  LET others == (addons \cap RecordingValues) \ {"timestamp"}
  IN SumOver(others, [v \in others |-> PRICING.recording[v]])

\* C4: where recording add-ons are priced, a selected timestamp adds 0 to the
\* recording amount when audio_video is selected and 49 when it is not; selecting
\* audio_video does not remove timestamp from the set.
C4_TimestampWaivedWithAudioVideo ==
  /\ []((selection.serviceType \in {"remote", "recording_only"}
         /\ "timestamp" \in selection.addons)
        => currentQuote.recordingPrice =
             Dollars(recordingWithoutTimestamp(selection.addons)
                     + (IF "audio_video" \in selection.addons THEN 0 ELSE 49)))
  /\ [][("timestamp" \in selection.addons /\ "audio_video" \notin selection.addons
         /\ "audio_video" \in selection'.addons)
        => "timestamp" \in selection'.addons]_vars

\* audio_video with timestamp: the recording line shows 199.00
C4_Witness ==
  /\ selection.serviceType = "remote"
  /\ {"audio_video", "timestamp"} \subseteq selection.addons
  /\ quoteDisplay.recording.shown
  /\ quoteDisplay.recording.value = 19900

\* the standard urgency and delivery surcharges of the selection, in dollars
\* (no radio button checked reads as standard / pickup)
urgencySurcharge == IF selection.urgency = "" THEN 0 ELSE PRICING.urgency[selection.urgency]
deliverySurcharge ==
  IF selection.delivery = "" THEN 0 ELSE PRICING.delivery[selection.delivery]
\* the number typed into numDocuments (nothing after it) / chosen in sessionHours,
\* 0 when there is none
typedDocuments ==
  IF selection.numDocuments.rest \/ selection.numDocuments.lead = <<>> THEN 0
  ELSE selection.numDocuments.lead[1]
chosenHours == IF selection.sessionHours = <<>> THEN 0 ELSE selection.sessionHours[1]

\* C5: an apostille for a catalog region and n >= 1 documents displays the total
\* base + (n-1) * base * 0.85 + urgency + delivery (here in cents), and for n = 1
\* the documents line charges nothing.
C5_ApostilleTotal ==
  (/\ selection.serviceType = "apostille"
   /\ selection.region \in DOMAIN PRICING.apostille
   /\ typedDocuments >= 1)
  => LET base == PRICING.apostille[selection.region]
     IN /\ quoteDisplay.total =
             base * 100 + (typedDocuments - 1) * base * 85
             + urgencySurcharge * 100 + deliverySurcharge * 100
        /\ typedDocuments = 1 =>
             quoteDisplay.documents.included /\ currentQuote.additionalDocsPrice = 0

\* nj, three documents, standard, pickup: 759.90 for the two more, 1206.90 in all
C5_Witness ==
  /\ selection.serviceType = "apostille" /\ selection.region = "nj"
  /\ selection.numDocuments = Text(<<3>>, FALSE)
  /\ selection.urgency = "standard" /\ selection.delivery = "pickup"
  /\ quoteDisplay.documents.shown /\ quoteDisplay.documents.count = 2
  /\ quoteDisplay.documents.value = 75990
  /\ quoteDisplay.total = 120690

\* C6: poa, trust and loan with n >= 1 documents display the total base +
\* (n-1) * perDoc + location + urgency + delivery, undiscounted; for n = 1 the
\* documents line reads "Included" and charges nothing.
C6_NotarizationTotal ==
  (/\ selection.serviceType \in {"poa", "trust", "loan"}
   /\ typedDocuments >= 1)
  => LET table == PRICING[selection.serviceType]
     IN /\ quoteDisplay.total =
             100 * (table.base + (typedDocuments - 1) * table.perDoc
                    + Rate(PRICING.location, selection.locationType)
                    + urgencySurcharge + deliverySurcharge)
        /\ typedDocuments = 1 =>
             /\ quoteDisplay.documents.shown /\ quoteDisplay.documents.included
             /\ currentQuote.additionalDocsPrice = 0

\* poa, one document, mobile, expedited, standard mail: 230.00, documents "Included"
C6_Witness ==
  /\ selection.serviceType = "poa" /\ selection.numDocuments = Text(<<1>>, FALSE)
  /\ selection.locationType = "mobile" /\ selection.urgency = "expedited"
  /\ selection.delivery = "standard_mail"
  /\ quoteDisplay.documents.included
  /\ quoteDisplay.total = 23000

\* the complexity add-ons and booking fees priced from the catalog
complexityFromCatalog(addons) ==
  LET chosen == addons \cap DOMAIN PRICING.complexity
  IN SumOver(chosen, [v \in chosen |-> PRICING.complexity[v]])
bookingFromCatalog(selected) ==
  SumOver(selected, [v \in selected |-> PRICING.remoteUrgency[v]])

\* C7: a remote deposition of h >= 1 hours displays the total 649 + max(0, h-4) * 150
\* + recording add-ons + complexity add-ons + booking fees, and shows no overage
\* line for h <= 4.
C7_RemoteTotal ==
  (selection.serviceType = "remote" /\ chosenHours >= 1)
  => /\ quoteDisplay.total =
          100 * (649 + (IF chosenHours > 4 THEN chosenHours - 4 ELSE 0) * 150
                 + recordingWithoutTimestamp(selection.addons)
                 + (IF "timestamp" \in selection.addons
                       /\ "audio_video" \notin selection.addons THEN 49 ELSE 0)
                 + complexityFromCatalog(selection.addons)
                 + bookingFromCatalog(selection.remoteUrgency))
     /\ chosenHours <= 4 => ~quoteDisplay.sessionOverage.shown

\* six hours, audio_video, rush booking: 649 + 300 + 199 + 125 = 1273.00
C7_Witness ==
  /\ selection.serviceType = "remote" /\ selection.sessionHours = <<6>>
  /\ selection.addons = {"audio_video"} /\ selection.remoteUrgency = {"rush_booking"}
  /\ quoteDisplay.sessionOverage.value = 30000
  /\ quoteDisplay.recording.value = 19900
  /\ quoteDisplay.bookingUrgency.value = 12500
  /\ quoteDisplay.total = 127300

\* C8: a click on Next at step 1 with apostille and no region leaves the form at
\* step 1 and marks region; with a region chosen (serviceType, the other required
\* field of the step, is then filled) the click moves to the requested step.
C8_AdvanceNeedsRegion ==
  [][(lastEvent'.type = "next" /\ currentStep = 1
      /\ selection.serviceType = "apostille")
     => IF selection.region = ""
        THEN currentStep' = 1 /\ "region" \in errors'.marked
             /\ notification' = "error"
        ELSE currentStep' = lastEvent'.step /\ lastEvent'.step = 2]_vars

\* step 2 reached by Next with a region chosen, the rejection notice still showing
C8_Witness ==
  /\ currentStep = 2 /\ lastEvent.type = "next"
  /\ selection.serviceType = "apostille" /\ selection.region = "nj"
  /\ notification = "error"
  /\ "region" \notin errors.marked

\* C9: computing the quote again on an unmodified selection changes nothing of
\* the displayed quote (lines, labels, amounts, total), whatever came before.
C9_RecomputeIsIdentical ==
  [][(selection' = selection /\ quoteDisplay.rendered) => quoteDisplay' = quoteDisplay]_vars

\* step 3 entered by Next: goToStep has computed again the quote of a selection
\* whose quote was already displayed
C9_Witness ==
  /\ currentStep = 3 /\ lastEvent.type = "next"
  /\ selection.serviceType = "apostille" /\ selection.region = "federal"
  /\ quoteDisplay.total = 49700

\* C10: once a selection-mutating event has been handled a quote is displayed, and
\* the displayed quote is always the quote of the current selection.
C10_DisplayFollowsSelection ==
  /\ lastEvent.type = "change" => quoteDisplay.rendered
  /\ quoteDisplay.rendered => quoteDisplay = updateQuoteDisplay(currentQuote)

\* an addon toggle that also cleared its partner: the panel shows the new set's price
C10_Witness ==
  /\ lastEvent.type = "change" /\ lastEvent.unchecked = {"audio_video"}
  /\ selection.serviceType = "remote"
  /\ quoteDisplay.recording.value = 14900
  /\ quoteDisplay.total = 79800

\* C11: an apostille with no region chosen, or with a region the catalog does not
\* list, still gets a quote: base 0.00, the documents line charges 0.00 whatever
\* numDocuments holds, and the selected urgency and delivery surcharges are in the
\* quote, on their lines and in the total.
C11_ApostilleWithoutRate ==
  (selection.serviceType = "apostille" /\ selection.region \notin DOMAIN PRICING.apostille)
  => /\ quoteDisplay.rendered
     /\ quoteDisplay.baseService.shown /\ quoteDisplay.baseService.value = 0
     /\ currentQuote.basePrice = 0 /\ currentQuote.additionalDocsPrice = 0
     /\ quoteDisplay.documents.shown /\ quoteDisplay.documents.value = 0
     /\ shownAmount(quoteDisplay.urgency) = urgencySurcharge * 100
     /\ shownAmount(quoteDisplay.delivery) = deliverySurcharge * 100
     /\ quoteDisplay.total = (urgencySurcharge + deliverySurcharge) * 100

\* no region, three documents, rush, express: two more documents at 0.00, 185.00 in all
C11_Witness ==
  /\ selection.serviceType = "apostille" /\ selection.region = ""
  /\ selection.numDocuments = Text(<<3>>, FALSE)
  /\ quoteDisplay.documents.count = 2 /\ quoteDisplay.documents.value = 0
  /\ quoteDisplay.urgency.value = 15000 /\ quoteDisplay.delivery.value = 3500
  /\ quoteDisplay.total = 18500

\* the values of serviceType that no case of calculateQuote names
UnknownServices == {"", "other"}
zeroLine(line) == ~line.shown \/ line.value = 0

\* C12: with a serviceType outside the enumeration (the empty value of a fresh form
\* included) every quote computed is all zero: each line that is shown reads 0.00,
\* the total is 0.00 and the service label is the placeholder, whatever urgency,
\* delivery, locationType, numDocuments, addons and remoteUrgency are selected.
C12_UnknownServiceAllZero ==
  (selection.serviceType \in UnknownServices /\ quoteDisplay.rendered)
  => /\ quoteDisplay.baseService.label = <<"Base Service">>
     /\ \A line \in {quoteDisplay.baseService, quoteDisplay.documents,
                      quoteDisplay.sessionOverage, quoteDisplay.recording,
                      quoteDisplay.complexity, quoteDisplay.urgency,
                      quoteDisplay.bookingUrgency, quoteDisplay.delivery,
                      quoteDisplay.location} : zeroLine(line)
     /\ quoteDisplay.total = 0

\* the panel the script would show had numDocuments held `text'
displayWithDocuments(text) ==
  updateQuoteDisplay(calculateQuote([selection EXCEPT !.numDocuments = text]))
\* the text is a positive integer and nothing else
isPositiveInteger(text) == ~text.rest /\ text.lead # <<>> /\ text.lead[1] >= 1
\* the text begins with a positive integer ("3", "2.5")
beginsWithPositive(text) == text.lead # <<>> /\ text.lead[1] >= 1

\* C13 as stated: whenever the numDocuments input is not a positive integer, the
\* quote displayed is the quote for numDocuments = 1 and charges no additional
\* document.
C13_NotPositiveIntegerQuotedAsOne ==
  (quoteDisplay.rendered /\ ~isPositiveInteger(selection.numDocuments))
  => /\ quoteDisplay = displayWithDocuments(Text(<<1>>, FALSE))
     /\ currentQuote.additionalDocsPrice = 0

\* C13, amended: whenever the numDocuments input does not begin with a positive
\* integer (empty, text without a leading number, zero, negative), the quote
\* displayed is the quote for numDocuments = 1 and charges no additional document;
\* an input that begins with the positive integer n is quoted as n documents.
C13_NoLeadingPositiveQuotedAsOne ==
  quoteDisplay.rendered =>
    IF beginsWithPositive(selection.numDocuments)
    THEN quoteDisplay = displayWithDocuments(Text(selection.numDocuments.lead, FALSE))
    ELSE /\ quoteDisplay = displayWithDocuments(Text(<<1>>, FALSE))
         /\ currentQuote.additionalDocsPrice = 0
         /\ ~quoteDisplay.documents.shown \/ quoteDisplay.documents.included

\* "-1" typed for a hospital signing: documents "Included", 100.00 in all
C13_Witness ==
  /\ selection.serviceType = "hospital"
  /\ selection.numDocuments = Text(<<0 - 1>>, FALSE)
  /\ quoteDisplay.documents.shown /\ quoteDisplay.documents.included
  /\ quoteDisplay.total = 10000

\* C14: the addon set handleAddonChange leaves for a toggle is a fixed point of
\* that toggle: handling the same box, in the same checked state, once more on the
\* set just resolved yields the identical set.
C14_ResolveIsIdempotent ==
  [][\A v \in AddonValues :
       LET nowSelected == v \notin selection.addons
       IN (/\ lastEvent'.type = "change"
           /\ selection'.addons # selection.addons
           /\ selection'.addons = addonsAfterChange(selection.addons, v, nowSelected))
          => addonsAfterChange(selection'.addons, v, nowSelected) = selection'.addons]_vars

\* same_day_delivery selected over 24hr_delivery, audio and timestamp kept
C14_Witness ==
  /\ selection.addons = {"audio", "timestamp", "same_day_delivery"}
  /\ lastEvent.unchecked = {"24hr_delivery"}

\* the other member of the exclusivity group of an addon, if it has one
partnerOf(x) == UNION {g \ {x} : g \in {h \in ExclusivityGroups : x \in h}}

\* C15: an addon toggle changes the membership of the toggled addon X and, only
\* when X becomes selected, of the partner of X in its exclusivity group; every
\* other addon (other groups, timestamp, complexity add-ons) and the remoteUrgency
\* set keep their membership, and a deselection changes X alone.
C15_ToggleFrame ==
  [][(lastEvent'.type = "change" /\ selection'.addons # selection.addons)
     => /\ selection'.remoteUrgency = selection.remoteUrgency
        /\ \E x \in AddonValues :
             LET changed == (selection.addons \ selection'.addons)
                            \cup (selection'.addons \ selection.addons)
             IN /\ x \in changed
                /\ IF x \in selection'.addons
                   THEN changed \subseteq {x} \cup partnerOf(x)
                   ELSE changed = {x}]_vars

\* audio_video selected over audio: timestamp, the archive option and the
\* complexity add-on are still selected
C15_Witness ==
  /\ selection.addons = {"audio_video", "timestamp", "archive_yearly", "heavy_exhibits"}
  /\ lastEvent.unchecked = {"audio"}

\* the fields a step-forward request from the current step must find filled: the
\* visible required controls of the step that are empty, and region for an
\* apostille at step 1
offendingFields ==
  {f \in requiredFields(currentStep) : isVisible(f) /\ isEmpty(f)}
  \cup (IF currentStep = 1 /\ selection.serviceType = "apostille" /\ selection.region = ""
        THEN {"region"} ELSE {})

\* C16: a click on Next that fails validation leaves currentStep, the selection,
\* the field groups and the displayed quote as they were, and signals the failure
\* without raising: every offending field is flagged and the error notification
\* is shown.
C16_FailedAdvanceChangesNothing ==
  [][(lastEvent'.type = "next" /\ offendingFields # {})
     => /\ currentStep' = currentStep
        /\ selection' = selection /\ groups' = groups
        /\ quoteDisplay' = quoteDisplay
        /\ offendingFields \subseteq errors'.marked
        /\ notification' = "error"]_vars

\* Next refused at step 2: numDocuments is required, visible and empty
C16_Witness ==
  /\ currentStep = 2 /\ lastEvent.type = "next" /\ lastEvent.step = 3
  /\ isEmpty("numDocuments") /\ isVisible("numDocuments")
  /\ "numDocuments" \in errors.marked
  /\ notification = "error"

\* the required controls of the current step that are empty and hidden
hiddenEmptyRequired ==
  {f \in requiredFields(currentStep) : ~isVisible(f) /\ isEmpty(f)}

\* C17: only the visible required fields of the current step are checked: a click
\* on Next that finds none of them empty (and, at step 1, a region for an
\* apostille) goes to the requested step and flags nothing, whatever required
\* fields are empty in hidden groups.
C17_HiddenRequiredNeverBlocks ==
  [][(lastEvent'.type = "next" /\ offendingFields = {})
     => /\ currentStep' = lastEvent'.step
        /\ errors' = errors
        /\ notification' = notification]_vars

\* an apostille advanced to step 2 while locationType, required and hidden, is empty
C17_Witness ==
  /\ currentStep = 2 /\ lastEvent.type = "next"
  /\ selection.serviceType = "apostille" /\ selection.region = "nj"
  /\ "locationType" \in markup.required
  /\ selection.locationType = "" /\ ~groups.locationTypeGroup
  /\ notification = "none"

\* C18: a click on Previous is never refused and never validates: from every step
\* after the first, whatever the selection, it sets currentStep to the requested
\* step and leaves the selection, the error flags and the notification as they
\* were, also when required fields of the step it leaves are empty.
C18_RetreatIsUnconditional ==
  /\ [](currentStep > 1 => ENABLED (idle /\ btnPrev))
  /\ [][lastEvent'.type = "prev"
        => /\ currentStep' = lastEvent'.step /\ currentStep' = currentStep - 1
           /\ selection' = selection
           /\ errors' = errors /\ notification' = notification]_vars

\* back at step 1 from step 2, whose required numDocuments is visible and empty:
\* nothing is flagged
C18_Witness ==
  /\ currentStep = 1 /\ lastEvent.type = "prev"
  /\ "numDocuments" \in markup.required
  /\ isVisible("numDocuments") /\ isEmpty("numDocuments")
  /\ errors.marked = {} /\ notification = "none"

\* C19: whenever step 3 is the current step, however it was entered (Next from
\* step 2 or Previous from step 4, for the first time or again), a quote has been
\* computed and the panel shows the quote of the current selection.
C19_StepThreeShowsCurrentQuote ==
  /\ [](currentStep = 3
        => quoteDisplay.rendered /\ quoteDisplay = updateQuoteDisplay(currentQuote))
  /\ [][(currentStep' = 3 /\ lastEvent'.type \in {"next", "prev"})
        => quoteDisplay' = updateQuoteDisplay(calculateQuote(selection'))]_vars

\* the blank form walked to step 4 and back to step 3: no change event has
\* computed a quote, goToStep has
C19_Witness ==
  /\ currentStep = 3 /\ lastEvent.type = "prev"
  /\ selection = emptySelection
  /\ quoteDisplay.rendered
  /\ quoteDisplay.baseService.label = <<"Base Service">> /\ quoteDisplay.total = 0

\* the groups the policy table shows for each service type of the enumeration
PolicyTable ==
  "apostille" :> {"regionGroup", "numDocumentsGroup", "standardUrgencyGroup",
                  "deliveryGroup"} @@
  "poa" :> {"locationTypeGroup", "numDocumentsGroup", "standardUrgencyGroup",
            "deliveryGroup"} @@
  "trust" :> {"locationTypeGroup", "numDocumentsGroup", "standardUrgencyGroup",
              "deliveryGroup"} @@
  "loan" :> {"locationTypeGroup", "numDocumentsGroup", "standardUrgencyGroup",
             "deliveryGroup"} @@
  "hospital" :> {"numDocumentsGroup", "standardUrgencyGroup", "deliveryGroup"} @@
  "remote" :> {"sessionHoursGroup", "recordingAddonsGroup", "recordingDeliveryGroup",
               "complexityGroup", "remoteUrgencyGroup"} @@
  "recording_only" :> {"recordingAddonsGroup", "recordingDeliveryGroup",
                       "remoteUrgencyGroup"} @@
  "certified_reporter" :> {"certifiedReporterGroup", "remoteUrgencyGroup"}

\* the field groups currently displayed
shownGroups == {g \in DOMAIN groups \ {"regionRequired"} : groups[g]}

\* C20: whatever service types were chosen before, the groups displayed are those
\* the policy table gives for the current serviceType and no other, and region is
\* required exactly while serviceType is apostille.
C20_GroupsFollowPolicy ==
  /\ selection.serviceType \in DOMAIN PolicyTable
       => shownGroups = PolicyTable[selection.serviceType]
  /\ groups.regionRequired <=> selection.serviceType = "apostille"

\* recording_only chosen after an apostille whose region is still in the control
C20_Witness ==
  /\ selection.serviceType = "recording_only" /\ selection.region = "nj"
  /\ lastEvent.type = "change"
  /\ shownGroups = {"recordingAddonsGroup", "recordingDeliveryGroup", "remoteUrgencyGroup"}
  /\ ~groups.regionRequired

\* the selection with the three document fields as a fresh form holds them
withoutDocumentFields(s) ==
  [s EXCEPT !.numDocuments = Text(<<>>, FALSE), !.urgency = "", !.delivery = ""]

\* C21: for remote, recording_only and certified_reporter the additional-documents,
\* urgency and delivery amounts are 0, their lines are not shown, and the panel,
\* total included, is the one the same selection gives with numDocuments, urgency
\* and delivery untouched: no value of the three fields changes it.
C21_DocumentFieldsIgnoredForRemote ==
  (selection.serviceType \in RemoteServices)
  => /\ quoteDisplay.rendered
     /\ currentQuote.additionalDocsPrice = 0
     /\ currentQuote.urgencyPrice = 0 /\ currentQuote.deliveryPrice = 0
     /\ ~quoteDisplay.documents.shown
     /\ ~quoteDisplay.urgency.shown /\ ~quoteDisplay.delivery.shown
     /\ quoteDisplay =
          updateQuoteDisplay(calculateQuote(withoutDocumentFields(selection)))

\* recording_only chosen while numDocuments holds 3 and urgency rush: 0.00 in all
C21_Witness ==
  /\ selection.serviceType = "recording_only"
  /\ selection.numDocuments = Text(<<3>>, FALSE) /\ selection.urgency = "rush"
  /\ lastEvent.type = "change"
  /\ quoteDisplay.rendered /\ quoteDisplay.total = 0

\* the recording add-ons priced from the catalog, timestamp waived with audio_video
recordingFromCatalog(addons) ==
  recordingWithoutTimestamp(addons)
  + (IF "timestamp" \in addons /\ "audio_video" \notin addons THEN 49 ELSE 0)

\* C22: recording_only displays the total recording add-ons + booking fees, with
\* base 0.00, no overage line whatever sessionHours holds and no complexity line
\* whatever complexity add-ons are selected; certified_reporter displays the total
\* 125 + booking fees, with no recording, complexity or overage line whatever
\* add-ons are selected.
C22_RecordingOnlyAndReporterTotals ==
  /\ selection.serviceType = "recording_only"
       => /\ quoteDisplay.total =
               100 * (recordingFromCatalog(selection.addons)
                      + bookingFromCatalog(selection.remoteUrgency))
          /\ quoteDisplay.baseService.value = 0 /\ currentQuote.basePrice = 0
          /\ ~quoteDisplay.sessionOverage.shown /\ currentQuote.sessionOveragePrice = 0
          /\ ~quoteDisplay.complexity.shown /\ currentQuote.complexityPrice = 0
  /\ selection.serviceType = "certified_reporter"
       => /\ quoteDisplay.total = 100 * (125 + bookingFromCatalog(selection.remoteUrgency))
          /\ quoteDisplay.baseService.value = 12500
          /\ ~quoteDisplay.recording.shown /\ currentQuote.recordingPrice = 0
          /\ ~quoteDisplay.complexity.shown /\ currentQuote.complexityPrice = 0
          /\ ~quoteDisplay.sessionOverage.shown

\* recording_only, six hours, audio and a complexity add-on, rush booking:
\* 149 + 125 = 274.00
C22_Witness ==
  /\ selection.serviceType = "recording_only" /\ selection.sessionHours = <<6>>
  /\ selection.addons = {"audio", "heavy_exhibits"}
  /\ selection.remoteUrgency = {"rush_booking"}
  /\ quoteDisplay.recording.value = 14900 /\ quoteDisplay.bookingUrgency.value = 12500
  /\ quoteDisplay.total = 27400

\* C23: a hospital signing never shows or charges a location fee, whatever
\* locationType holds, and for n >= 1 documents displays the total
\* 100 + (n-1) * 25 + urgency + delivery.
C23_HospitalTotal ==
  selection.serviceType = "hospital"
  => /\ quoteDisplay.rendered
     /\ ~quoteDisplay.location.shown
     /\ typedDocuments >= 1 =>
          quoteDisplay.total =
            100 * (100 + (typedDocuments - 1) * 25 + urgencySurcharge + deliverySurcharge)

\* hospital with locationType still "hospital", two documents, expedited, express:
\* 100 + 25 + 75 + 35 = 235.00 and no location line
C23_Witness ==
  /\ selection.serviceType = "hospital" /\ selection.locationType = "hospital"
  /\ selection.numDocuments = Text(<<2>>, FALSE)
  /\ selection.urgency = "expedited" /\ selection.delivery = "express"
  /\ ~quoteDisplay.location.shown
  /\ quoteDisplay.total = 23500

\* C24: a submit event received while the current step is before the last one
\* stores no request and does not show the confirmation screen.
C24_SubmitOnlyAtLastStep ==
  [][(lastEvent'.type = "submit" /\ currentStep < LastStep)
     => submissions' = submissions /\ confirmation' = confirmation]_vars

\* C25: a click on Next (validation passed or failed), a click on Previous and the
\* validation a submit event runs leave every field of the selection as it was, and
\* the quote panel they leave is either untouched or the quote of that selection.
C25_NavigationKeepsSelection ==
  [][lastEvent'.type \in {"next", "prev", "submit"}
     => /\ selection' = selection
        /\ \/ quoteDisplay' = quoteDisplay
           \/ quoteDisplay' = updateQuoteDisplay(calculateQuote(selection))
        /\ quoteDisplay'.rendered
             => quoteDisplay' = updateQuoteDisplay(calculateQuote(selection))]_vars

\* back at step 1 by Previous with the apostille for nj and two documents still
\* selected and quoted: 447 + 379.95 = 826.95
C25_Witness ==
  /\ currentStep = 1 /\ lastEvent.type = "prev"
  /\ selection.serviceType = "apostille" /\ selection.region = "nj"
  /\ selection.numDocuments = Text(<<2>>, FALSE)
  /\ quoteDisplay.total = 82695

\* the amounts of a quote object, and the amounts a panel displays
amountsOf(quote) ==
  {quote.basePrice, quote.additionalDocsPrice, quote.sessionOveragePrice,
   quote.recordingPrice, quote.complexityPrice, quote.urgencyPrice,
   quote.bookingUrgencyPrice, quote.deliveryPrice, quote.locationPrice}
displayedAmounts ==
  {quoteDisplay.baseService.value, quoteDisplay.documents.value,
   quoteDisplay.sessionOverage.value, quoteDisplay.recording.value,
   quoteDisplay.complexity.value, quoteDisplay.urgency.value,
   quoteDisplay.bookingUrgency.value, quoteDisplay.delivery.value,
   quoteDisplay.location.value}

\* C26: for every selection the form can hold, every amount of its quote and their
\* total are non-negative, and so are every amount and the total displayed.
C26_AmountsNonNegative ==
  /\ \A amount \in amountsOf(currentQuote) : amount >= 0
  /\ quoteTotal(currentQuote) >= 0
  /\ \A amount \in displayedAmounts : amount >= 0
  /\ quoteDisplay.total >= 0

\* a remote deposition of three hours with "-1" left in numDocuments: no overage
\* line, 649.00 in all
C26_Witness ==
  /\ selection.serviceType = "remote" /\ selection.sessionHours = <<3>>
  /\ selection.numDocuments = Text(<<0 - 1>>, FALSE)
  /\ ~quoteDisplay.sessionOverage.shown
  /\ quoteDisplay.total = 64900

\* the fields that are hidden for a service type, among those that a switch of
\* service type can leave filled: region for all but apostille, locationType for
\* apostille and hospital, the session fields for all but the remote services
hiddenFieldsOf(serviceType) ==
  (IF serviceType # "apostille" THEN {"region"} ELSE {})
  \cup (IF serviceType \in {"apostille", "hospital"} THEN {"locationType"} ELSE {})
  \cup (IF serviceType \notin RemoteServices
        THEN {"addons", "remoteUrgency", "sessionHours"} ELSE {})

\* the selection with its hidden fields as a fresh form holds them
withoutHiddenFields(s) ==
  [f \in DOMAIN s |-> IF f \in hiddenFieldsOf(s.serviceType) THEN emptySelection[f]
                      ELSE s[f]]

\* C27: the quote displayed is the quote of the selection with its hidden fields
\* blank, so two selections of the same service type that differ only in hidden
\* fields are quoted alike, line by line and in total.
C27_HiddenFieldsDoNotPrice ==
  quoteDisplay.rendered =>
    /\ quoteDisplay = updateQuoteDisplay(calculateQuote(withoutHiddenFields(selection)))
    /\ amountsOf(currentQuote) = amountsOf(calculateQuote(withoutHiddenFields(selection)))

\* power of attorney chosen after audio was ticked and region nj picked: 115.00
C27_Witness ==
  /\ selection.serviceType = "poa" /\ selection.region = "nj"
  /\ selection.addons = {"audio"}
  /\ lastEvent.type = "change"
  /\ ~quoteDisplay.recording.shown
  /\ quoteDisplay.total = 11500

\* C28: a submit event whose validation fails stores nothing, sets no case number
\* and leaves the form displayed; one whose validation passes pushes exactly one
\* record behind those already stored, holding the selection of that moment and, as
\* estimatedTotal, the total the panel displays for it, and shows its case number.
C28_SubmitStoresOnceOrNothing ==
  [][lastEvent'.type = "submit"
     => IF offendingFields # {}
        THEN /\ submissions' = submissions
             /\ confirmation' = confirmation /\ ~confirmation'.shown
             /\ notification' = "error"
        ELSE /\ Len(submissions') = Len(submissions) + 1
             /\ SubSeq(submissions', 1, Len(submissions)) = submissions
             /\ LET stored == submissions'[Len(submissions')]
                IN /\ stored.formData.estimatedTotal = quoteDisplay.total
                   /\ quoteDisplay.rendered =>
                        stored.formData.estimatedTotal =
                          formatCurrency(quoteTotal(calculateQuote(selection)))
                   /\ \A f \in DOMAIN selection : stored.formData[f] = selection[f]
                   /\ confirmation' = [shown |-> TRUE, caseNumber |-> <<stored.caseId>>]]_vars

\* an apostille for nj with two documents submitted from step 4, behind the request
\* of an earlier visit: 826.95 stored as estimatedTotal
C28_Witness ==
  /\ lastEvent.type = "submit" /\ currentStep = LastStep
  /\ confirmation.shown
  /\ Len(submissions) = 2 /\ submissions[1] = earlierSubmission
  /\ submissions[2].formData.serviceType = "apostille"
  /\ submissions[2].formData.estimatedTotal = 82695
  /\ submissions[2].caseId = confirmation.caseNumber[1]

\* the name and size of the entries of a list
keysOf(list) == {<<list[i].name, list[i].size>> : i \in 1..Len(list)}
TenMegabytes == 10485760
AcceptedFormats == {"application/pdf", "image/jpeg", "image/png"}

\* every entry is a PDF, JPEG or PNG of at most 10 MB, no two of the same name and size
listIsClean(list) ==
  /\ \A i \in 1..Len(list) :
       list[i].type \in AcceptedFormats /\ list[i].size <= TenMegabytes
  /\ \A i, j \in 1..Len(list) :
       (list[i].name = list[j].name /\ list[i].size = list[j].size) => i = j

\* C29: the uploaded-files list is always clean, and for every batch that could be
\* handed over now: the entries already listed stay in place, every entry added is
\* a file of the batch, a batch whose files are all unacceptable adds nothing, and
\* every file of the batch that is acceptable and not yet listed is listed after
\* the batch, whatever other files of the batch were rejected.
C29_UploadedFilesStayClean ==
  /\ listIsClean(uploadedFiles)
  /\ \A files \in Batches :
       LET after == pushEach(uploadedFiles, files)
           acceptable(file) ==
             file.type \in AcceptedFormats /\ file.size <= TenMegabytes
             /\ <<file.name, file.size>> \notin keysOf(uploadedFiles)
       IN /\ Len(after) >= Len(uploadedFiles)
          /\ SubSeq(after, 1, Len(uploadedFiles)) = uploadedFiles
          /\ \A j \in (Len(uploadedFiles) + 1)..Len(after) :
               \E i \in 1..Len(files) : after[j] = files[i] /\ acceptable(files[i])
          /\ \A i \in 1..Len(files) :
               acceptable(files[i]) => <<files[i].name, files[i].size>> \in keysOf(after)
          /\ listIsClean(after)

\* a batch has added scan.png behind two entries of the same name and different
\* sizes, and a file of the batch was rejected
C29_Witness ==
  /\ lastEvent.type = "files" /\ notification = "error"
  /\ Len(uploadedFiles) = 3
  /\ uploadedFiles[1].name = "deed.pdf" /\ uploadedFiles[2].name = "deed.pdf"
  /\ uploadedFiles[1].size = 1024 /\ uploadedFiles[2].size = TenMegabytes
  /\ uploadedFiles[3].name = "scan.png"

\* no two cases of the list carry the same id
idsUnique(list) == \A i, j \in 1..Len(list) : list[i].id = list[j].id => i = j

\* C30: for every file that could be imported now, the cases stored after the import
\* begin with the cases stored before, unmodified and in place; every case added
\* is an item of the file whose id no case before it in the list carries; unique
\* ids stay unique; and a file that holds no JSON array leaves the cases as they are.
C30_ImportMergesWithoutOverwriting ==
  \A file \in ImportedFiles :
    LET after == importOutcome(cases, file).cases
    IN /\ Len(after) >= Len(cases)
       /\ SubSeq(after, 1, Len(cases)) = cases
       /\ \A j \in (Len(cases) + 1)..Len(after) :
            /\ \E k \in 1..Len(file.items) : file.items[k] = after[j]
            /\ \A i \in 1..(j - 1) : after[i].id # after[j].id
       /\ idsUnique(cases) => idsUnique(after)
       /\ file.kind # "array" => after = cases

\* CNA-1 (Ann) and CNA-2 (Ann) stored, then a file imported that added CNA-3
C30_Witness ==
  /\ lastEvent.type = "import" /\ toast = "success"
  /\ cases = <<caseObject(<<"CNA-1">>, "Ann"), caseObject(<<"CNA-2">>, "Ann"),
               caseObject(<<"CNA-3">>, "Bob")>>

====
